---- MODULE Spec2Model ----
(***************************************************************************)
(* Model of the piecewise-jerk nonlinear speed optimizer                   *)
(* (PiecewiseJerkSpeedNonlinearOptimizer).                                 *)
(*                                                                         *)
(* Numbers are fixed-point integers:                                       *)
(*   lengths        in 1e-6 m      (Meter = 1 000 000)                     *)
(*   velocities     in 1e-6 m/s                                            *)
(*   accelerations  in 1e-6 m/s^2                                          *)
(*   times          in 1e-3 s      (delta_t_ = 0.1 s = 100)                *)
(***************************************************************************)
EXTENDS Integers, Sequences, FiniteSets, TLC

VARIABLES
    pc,          \* position of the thread that runs Process
    status,      \* Status returned by the last finished Process call
    in,          \* what the running call was given / has read from its collaborators,
                 \* and (before) the status and members the previous call left
    speed_data,  \* the caller's SpeedData object (in: DP profile, out: result)
    optimizer,   \* the members of the optimizer object
    arrays,      \* the locals distance / velocity / acceleration of Process
    fresh,       \* the same call replayed on a freshly constructed optimizer
    trace,       \* the stages invoked so far in this call, with their arguments
    calls,       \* number of Process calls made on the object so far
    nlp_pc,      \* SpecNLP: position of each thread inside OptimizeByNLP
    nlp_obj,     \* SpecNLP: the optimizer object each thread calls on
    nlp_args,    \* SpecNLP: the warm-start arrays each thread passed
    nlp_ret,     \* SpecNLP: what each thread's last call returned
    mutex_tnlp,  \* SpecNLP: holder of each mutex (0 = free)
    path,        \* SpecPath: a DiscretizedPath object
    path_ret     \* SpecPath: the last call made on path and what it returned

vars == <<pc, status, in, speed_data, optimizer, arrays, fresh, trace, calls,
          nlp_pc, nlp_obj, nlp_args, nlp_ret, mutex_tnlp, path, path_ret>>

procVars == <<pc, status, in, speed_data, optimizer, arrays, fresh, trace, calls>>
nlpVars == <<nlp_pc, nlp_obj, nlp_args, nlp_ret, mutex_tnlp>>
pathVars == <<path, path_ret>>

----------------------------------------------------------------------------
(* Units and program constants *)

Meter == 1000 * 1000
Second == 10 * 100

delta_t_ == 100
k_s_bound_error == 100000
k_overtake_safe_dist == 10000000
kEpsilon == 1
FLAGS_follow_min_distance == 3 * Meter
\* FLAGS_follow_time_buffer (2.5 s) times a velocity
FollowTimeBuffer(v) == (5 * v) \div 2

Min(a, b) == IF a < b THEN a ELSE b
Max(a, b) == IF a > b THEN a ELSE b

OK == "OK"
Failed(msg) == msg
IsOk(st) == st = OK

----------------------------------------------------------------------------
(* Collaborators of the bounds build *)

BoundaryTypes == {"STOP", "YIELD", "FOLLOW", "OVERTAKE", "KEEP_CLEAR"}

\* STBoundary::GetUnblockSRange(curr_t, &s_upper, &s_lower): fails outside the
\* boundary's time span, else yields the unblocked range at curr_t.
GetUnblockSRange(boundary, curr_t) ==
    IF curr_t < boundary.min_t \/ curr_t > boundary.max_t
    THEN [ok |-> FALSE, s_upper |-> 0, s_lower |-> 0]
    ELSE [ok |-> TRUE, s_upper |-> boundary.s_upper, s_lower |-> boundary.s_lower]

\* SpeedData::EvaluateByTime(t, &point): fails on fewer than two points or a t
\* outside [front.t, back.t]; the profiles of the model are sampled every
\* delta_t_, so a knot time inside the span hits a sample.
EvaluateByTime(sd, t) ==
    IF Len(sd) < 2 \/ t < sd[1].t \/ t > sd[Len(sd)].t
    THEN [ok |-> FALSE, s |-> 0, v |-> 0]
    ELSE LET k == CHOOSE k \in 1..Len(sd) : sd[k].t = t
         IN  [ok |-> TRUE, s |-> sd[k].s, v |-> sd[k].v]

SpeedPoint(s, t, v, a, j) == [s |-> s, t |-> t, v |-> v, a |-> a, j |-> j]

----------------------------------------------------------------------------
(* SetUpStatesAndBounds: the fold of one ST boundary into one knot *)

\* s_gap of a YIELD / FOLLOW boundary at curr_t
SGap(boundary, curr_t) ==
    IF /\ boundary.poi_valid
       /\ boundary.poi_time - curr_t < 50
       /\ boundary.poi_time - curr_t > -50
    THEN Max(boundary.characteristic_length, boundary.poi_s_gap)
    ELSE boundary.characteristic_length

SoftFollowDist(dp_v) ==
    FLAGS_follow_min_distance
        + Min(7 * Meter, FollowTimeBuffer(dp_v))

\* a mutant of RepairUpper: a collapsed band is widened by twice the error
RepairUpper_Wide(b) ==
    LET hi == IF b.s_upper_bound <= b.s_lower_bound
              THEN b.s_lower_bound + 2 * k_s_bound_error ELSE b.s_upper_bound
        shi == IF b.s_soft_upper_bound <= b.s_soft_lower_bound
               THEN b.s_soft_lower_bound + 2 * k_s_bound_error ELSE b.s_soft_upper_bound
    IN  [b EXCEPT !.s_upper_bound = hi, !.s_soft_upper_bound = shi]

\* a mutant of RepairUpper: only the hard pair is repaired
RepairUpper_HardOnly(b) ==
    [b EXCEPT !.s_upper_bound =
                  IF b.s_upper_bound <= b.s_lower_bound
                  THEN b.s_lower_bound + k_s_bound_error ELSE b.s_upper_bound]

\* the two "check s bound" repairs after an update of the upper bounds
RepairUpper(b) ==
    LET hi == IF b.s_upper_bound <= b.s_lower_bound
              THEN b.s_lower_bound + k_s_bound_error ELSE b.s_upper_bound
        shi == IF b.s_soft_upper_bound <= b.s_soft_lower_bound
               THEN b.s_soft_lower_bound + k_s_bound_error ELSE b.s_soft_upper_bound
    IN  [b EXCEPT !.s_upper_bound = hi, !.s_soft_upper_bound = shi]

\* a mutant of RepairLower: a collapsed band is widened by twice the error
RepairLower_Wide(b) ==
    LET lo == IF b.s_upper_bound <= b.s_lower_bound
              THEN b.s_upper_bound - 2 * k_s_bound_error ELSE b.s_lower_bound
        slo == IF b.s_soft_upper_bound <= b.s_soft_lower_bound
               THEN b.s_soft_upper_bound - 2 * k_s_bound_error ELSE b.s_soft_lower_bound
    IN  [b EXCEPT !.s_lower_bound = lo, !.s_soft_lower_bound = slo]

\* a mutant of RepairLower: a collapsed band is left as it is
RepairLower_Skipped(b) == b

\* the two "check s bound" repairs after an update of the lower bounds
RepairLower(b) ==
    LET lo == IF b.s_upper_bound <= b.s_lower_bound
              THEN b.s_upper_bound - k_s_bound_error ELSE b.s_lower_bound
        slo == IF b.s_soft_upper_bound <= b.s_soft_lower_bound
               THEN b.s_soft_upper_bound - k_s_bound_error ELSE b.s_soft_lower_bound
    IN  [b EXCEPT !.s_lower_bound = lo, !.s_soft_lower_bound = slo]

\* soft-bound mode: the switch on boundary_type() for one boundary
FoldSoft(b, boundary, curr_t, dp_v) ==
    LET r == GetUnblockSRange(boundary, curr_t)
        s_gap == SGap(boundary, curr_t)
    IN  IF ~r.ok THEN b
        ELSE CASE boundary.type = "STOP" ->
                    RepairUpper([b EXCEPT
                        !.s_upper_bound = Min(b.s_upper_bound, r.s_upper),
                        !.s_soft_upper_bound = Min(b.s_soft_upper_bound, r.s_upper)])
               [] boundary.type = "YIELD" ->
                    RepairUpper([b EXCEPT
                        !.s_upper_bound = Min(b.s_upper_bound, r.s_upper - s_gap),
                        !.s_soft_upper_bound = Min(b.s_soft_upper_bound, r.s_upper)])
               [] boundary.type = "FOLLOW" ->
                    RepairUpper([b EXCEPT
                        !.s_upper_bound = Min(b.s_upper_bound, r.s_upper - s_gap),
                        !.s_soft_upper_bound =
                            Min(b.s_soft_upper_bound, r.s_upper - SoftFollowDist(dp_v))])
               [] boundary.type = "OVERTAKE" ->
                    RepairLower([b EXCEPT
                        !.s_lower_bound = Max(b.s_lower_bound, r.s_lower),
                        !.s_soft_lower_bound =
                            Max(b.s_soft_lower_bound, r.s_lower + k_overtake_safe_dist)])
               [] OTHER -> b

\* soft-bound mode: the loop over st_boundaries() at one knot
RECURSIVE FoldAllSoft(_, _, _, _)
FoldAllSoft(b, boundaries, curr_t, dp_v) ==
    IF boundaries = <<>> THEN b
    ELSE FoldAllSoft(FoldSoft(b, Head(boundaries), curr_t, dp_v),
                     Tail(boundaries), curr_t, dp_v)

\* a mutant of FoldHard: a collapsed pair is repaired as in soft-bound mode
FoldHard_Repairs(b, boundary, curr_t) ==
    LET r == GetUnblockSRange(boundary, curr_t)
    IN  IF ~r.ok THEN b
        ELSE CASE boundary.type \in {"STOP", "YIELD"} ->
                    RepairUpper([b EXCEPT !.s_upper_bound = Min(b.s_upper_bound, r.s_upper)])
               [] boundary.type = "FOLLOW" ->
                    RepairUpper([b EXCEPT !.s_upper_bound =
                                     Min(b.s_upper_bound, r.s_upper - 8 * Meter)])
               [] boundary.type = "OVERTAKE" ->
                    RepairLower([b EXCEPT !.s_lower_bound = Max(b.s_lower_bound, r.s_lower)])
               [] OTHER -> b

\* single-tier mode: the switch on boundary_type() for one boundary
FoldHard(b, boundary, curr_t) ==
    LET r == GetUnblockSRange(boundary, curr_t)
    IN  IF ~r.ok THEN b
        ELSE CASE boundary.type \in {"STOP", "YIELD"} ->
                    [b EXCEPT !.s_upper_bound = Min(b.s_upper_bound, r.s_upper)]
               [] boundary.type = "FOLLOW" ->
                    [b EXCEPT !.s_upper_bound = Min(b.s_upper_bound, r.s_upper - 8 * Meter)]
               [] boundary.type = "OVERTAKE" ->
                    [b EXCEPT !.s_lower_bound = Max(b.s_lower_bound, r.s_lower)]
               [] OTHER -> b

RECURSIVE FoldAllHard(_, _, _)
FoldAllHard(b, boundaries, curr_t) ==
    IF boundaries = <<>> THEN b
    ELSE FoldAllHard(FoldHard(b, Head(boundaries), curr_t), Tail(boundaries), curr_t)

KnotStart(total_length) ==
    [s_lower_bound |-> 0, s_upper_bound |-> total_length,
     s_soft_lower_bound |-> 0, s_soft_upper_bound |-> total_length]

----------------------------------------------------------------------------
(* SetUpStatesAndBounds: one knot, the knot loops, the whole function *)

MsgRough == "rough speed profile estimation for soft follow fence failed"
MsgBounds == "s_lower_bound larger than s_upper_bound on STGraph"

\* lines 450-458 and 499-505: "check bound valid"
KnotCheck(b) ==
    [status |-> IF b.s_lower_bound > b.s_upper_bound THEN Failed(MsgBounds) ELSE OK,
     b |-> b]

\* a mutant of EbkAdjust: the hard upper bound is set to ebk.s + 0.2
EbkAdjust_Assigns(b, has_dynamic_constraints_lower, ebk_s) ==
    IF has_dynamic_constraints_lower
    THEN [b EXCEPT !.s_upper_bound = ebk_s + 200000]
    ELSE b

\* lines 439-446: "check dynamic constraints lower bound"
EbkAdjust(b, has_dynamic_constraints_lower, ebk_s) ==
    IF has_dynamic_constraints_lower
    THEN [b EXCEPT !.s_upper_bound = Max(@, ebk_s + 200000)]
    ELSE b

\* lines 439-461: the emergency-brake adjustment and the validity check
KnotSoftFinish(folded, has_dynamic_constraints_lower, ebk_s) ==
    KnotCheck(EbkAdjust(folded, has_dynamic_constraints_lower, ebk_s))

\* a mutant of KnotSoftFold: the emergency-brake curve raises the hard upper
\* bound with or without ST boundaries
KnotSoftFold_EbkAlways(g, curr_t, ebk, dp) ==
    IF g.st_boundaries # <<>> /\ ~dp.ok
    THEN [status |-> Failed(MsgRough), b |-> KnotStart(g.total_length)]
    ELSE KnotSoftFinish(
             FoldAllSoft(KnotStart(g.total_length), g.st_boundaries, curr_t, dp.v),
             ebk.ok, ebk.s)

\* a mutant of KnotSoftFold: the DP profile is looked up at every knot, with
\* or without ST boundaries
KnotSoftFold_AlwaysLooksUp(g, curr_t, ebk, dp) ==
    IF ~dp.ok
    THEN [status |-> Failed(MsgRough), b |-> KnotStart(g.total_length)]
    ELSE KnotSoftFinish(
             FoldAllSoft(KnotStart(g.total_length), g.st_boundaries, curr_t, dp.v),
             g.st_boundaries # <<>> /\ ebk.ok, ebk.s)

\* lines 265-429: the two profile lookups and the loop over the boundaries
KnotSoftFold(g, curr_t, ebk, dp) ==
    IF g.st_boundaries # <<>> /\ ~dp.ok
    THEN [status |-> Failed(MsgRough), b |-> KnotStart(g.total_length)]
    ELSE KnotSoftFinish(
             FoldAllSoft(KnotStart(g.total_length), g.st_boundaries, curr_t, dp.v),
             g.st_boundaries # <<>> /\ ebk.ok, ebk.s)

\* soft-bound mode, body of the loop over the knots (lines 259-461)
KnotSoft(g, sd, i) ==
    KnotSoftFold(g, i * delta_t_,
                 EvaluateByTime(g.emergency_brake, i * delta_t_),
                 EvaluateByTime(sd, i * delta_t_))

\* single-tier mode, body of the loop over the knots (lines 470-506)
KnotHard(g, i) ==
    KnotCheck(FoldAllHard(KnotStart(g.total_length), g.st_boundaries, i * delta_t_))

\* the emplace_back calls that end a knot
AppendKnot(acc, use_soft_bound, b) ==
    [acc EXCEPT
       !.s_soft_bounds_ =
           IF use_soft_bound
           THEN Append(@, <<b.s_soft_lower_bound, b.s_soft_upper_bound>>)
           ELSE @,
       !.s_bounds_ = Append(@, <<b.s_lower_bound, b.s_upper_bound>>)]

RECURSIVE KnotLoop(_, _, _, _, _)
RECURSIVE KnotNext(_, _, _, _, _, _)

\* a failed knot returns at once, a good one is appended
KnotNext(g, sd, i, n, acc, k) ==
    IF ~IsOk(k.status) THEN [acc EXCEPT !.status = k.status]
    ELSE KnotLoop(g, sd, i + 1, n, AppendKnot(acc, g.use_soft_bound, k.b))

\* for (int i = 0; i < num_of_knots_; ++i)
KnotLoop(g, sd, i, n, acc) ==
    IF i >= n THEN acc
    ELSE KnotNext(g, sd, i, n, acc,
                  IF g.use_soft_bound THEN KnotSoft(g, sd, i) ELSE KnotHard(g, i))

\* a mutant of BoundsAtLoopEntry: the vectors are not cleared
BoundsAtLoopEntry_NoClear(self, use_soft_bound) ==
    [status |-> OK, s_bounds_ |-> self.s_bounds_, s_soft_bounds_ |-> self.s_soft_bounds_]

\* s_bounds_.clear(); s_soft_bounds_.clear() (the latter in soft-bound mode only)
BoundsAtLoopEntry(self, use_soft_bound) ==
    [status |-> OK,
     s_bounds_ |-> <<>>,
     s_soft_bounds_ |-> IF use_soft_bound THEN <<>> ELSE self.s_soft_bounds_]

\* static_cast<int>(total_time_ / delta_t_) + 1, for total_time >= 0
NumOfKnots(total_time) == (total_time \div delta_t_) + 1

\* lines 202-232: the dimensions and limits
SetUpDims(self, g) ==
    [self EXCEPT
        !.max_speed_ = g.max_speed,
        !.total_length_ = g.total_length,
        !.total_time_ = g.total_time,
        !.num_of_knots_ = NumOfKnots(g.total_time),
        !.s_init_ = 0,
        !.s_dot_init_ = g.init_v,
        !.s_ddot_init_ = g.init_a,
        !.s_dot_max_ = Max(g.max_speed, g.init_v + Meter)]

\* lines 510-513, reached only when every knot was good
SetUpFinish(dims, g, built) ==
    [status |-> built.status,
     self |-> [dims EXCEPT
                 !.s_bounds_ = built.s_bounds_,
                 !.s_soft_bounds_ = built.s_soft_bounds_,
                 !.speed_limit_ = IF IsOk(built.status) THEN g.speed_limit ELSE @,
                 !.cruise_speed_ = IF IsOk(built.status) THEN g.cruise_speed ELSE @]]

SetUpStatesAndBounds(self, g, sd) ==
    SetUpFinish(SetUpDims(self, g), g,
                KnotLoop(g, sd, 0, NumOfKnots(g.total_time),
                         BoundsAtLoopEntry(self, g.use_soft_bound)))

----------------------------------------------------------------------------
(* Bounds of the model *)

MaxKnots == 3
MaxCalls == 2
NumThreads == 2
NumObjects == 2
MaxBoundaries == 2

----------------------------------------------------------------------------
(* The optimizer object and what Process is given *)

\* the trajectory (0.0, 0.0, 0.0) both smoothed curves are constructed with
ZeroCurve == [kind |-> "zero", of |-> 0]
\* the trajectory a successful smoothing QP fits to its reference
FitCurve(ref) == [kind |-> "fit", of |-> ref]

\* the members after the constructor
InitOptimizer ==
    [max_speed_ |-> 0, total_length_ |-> 0, total_time_ |-> 0, num_of_knots_ |-> 0,
     s_init_ |-> 0, s_dot_init_ |-> 0, s_ddot_init_ |-> 0, s_dot_max_ |-> 0,
     s_bounds_ |-> <<>>, s_soft_bounds_ |-> <<>>,
     speed_limit_ |-> 0, cruise_speed_ |-> 0,
     smoothed_speed_limit_ |-> ZeroCurve,
     smoothed_path_curvature_ |-> ZeroCurve]

\* the members a stage reads, the others blanked
Reads(self, members) ==
    [m \in DOMAIN self |-> IF m \in members THEN self[m] ELSE InitOptimizer[m]]

NoSol == [distance |-> <<>>, velocity |-> <<>>, acceleration |-> <<>>]

NoEnv ==
    [use_soft_bound |-> FALSE, total_length |-> 0, total_time |-> 0,
     init_v |-> 0, init_a |-> 0, st_boundaries |-> <<>>, speed_limit |-> 0,
     max_speed |-> 0, cruise_speed |-> 0, emergency_brake |-> <<>>]

NoInput ==
    [speed_data_null |-> FALSE, dp |-> <<>>, path_empty |-> FALSE,
     reached_destination |-> FALSE, g |-> NoEnv, path_kappa |-> 0,
     qp |-> [ok |-> FALSE, sol |-> NoSol],
     kappa_ok |-> FALSE, vlimit_ok |-> FALSE,
     nlp_status |-> "none",
     before |-> [status |-> "none", optimizer |-> InitOptimizer]]

\* a speed profile sampled at the first n knot times
RECURSIVE Profile(_, _, _)
Profile(n, v, s0) ==
    IF n = 0 THEN <<>>
    ELSE Append(Profile(n - 1, v, s0),
                SpeedPoint(s0 + (n - 1) * ((v * delta_t_) \div Second),
                           (n - 1) * delta_t_, v, 0, 0))

\* the rough DP profiles a caller hands in: none, one that ends after the
\* second knot, one that covers the horizon
DPProfiles == {<<>>, Profile(2, 4 * Meter, 0), Profile(MaxKnots, 4 * Meter, 0)}

Boundary(type, s_upper, s_lower, min_t) ==
    [type |-> type, s_upper |-> s_upper, s_lower |-> s_lower,
     min_t |-> min_t, max_t |-> 8 * Second,
     characteristic_length |-> Meter,
     poi_valid |-> FALSE, poi_time |-> 0, poi_s_gap |-> 0]

EnvLength == 20 * Meter
EnvSpeedLimit == 10 * Meter

\* the planning situations of Spec: free road, a stop wall at the ego
\* position, an obstacle to overtake that appears at the second knot beyond
\* the end of the path, and a free road entered above the speed limit
Scenarios ==
    { [st_boundaries |-> <<>>, init_v |-> 0, emergency_brake |-> <<>>],
      [st_boundaries |-> <<Boundary("STOP", 0, 0, 0)>>, init_v |-> 0,
       emergency_brake |-> Profile(MaxKnots, 0, Meter)],
      [st_boundaries |-> <<Boundary("OVERTAKE", 200 * Meter, 30 * Meter, delta_t_)>>,
       init_v |-> 0, emergency_brake |-> <<>>],
      [st_boundaries |-> <<>>, init_v |-> EnvSpeedLimit + kEpsilon + 1,
       emergency_brake |-> <<>>] }

Environments ==
    { [use_soft_bound |-> soft, total_length |-> EnvLength,
       total_time |-> (n - 1) * delta_t_,
       init_v |-> sc.init_v, init_a |-> 0, st_boundaries |-> sc.st_boundaries,
       speed_limit |-> EnvSpeedLimit, max_speed |-> 15 * Meter,
       cruise_speed |-> 8 * Meter, emergency_brake |-> sc.emergency_brake] :
      soft \in BOOLEAN, n \in 1..MaxKnots, sc \in Scenarios }

----------------------------------------------------------------------------
(* The solvers *)

\* C++ index i of a vector
At(vec, i) == vec[i + 1]

\* what the speed QP can return for n knots: failure, or arrays of length n
\* whose velocities are within tolerance of [0, s_dot_max]
QPOutcomes(n) ==
    {[ok |-> FALSE, sol |-> NoSol]} \cup
    { [ok |-> TRUE,
       sol |-> [distance |-> [i \in 1..n |-> (i - 1) * Meter],
                velocity |-> [i \in 1..n |-> IF i = neg THEN -1 ELSE 2 * Meter],
                acceleration |-> [i \in 1..n |-> (i - 1) * 100000]]] :
      neg \in 0..Min(n, 2) }

IpoptStatuses ==
    {"Solve_Succeeded", "Solved_To_Acceptable_Level",
     "Infeasible_Problem_Detected", "Maximum_Iterations_Exceeded"}

\* what the NLP solver can do for n knots
NLPOutcomes(n) ==
    { [use_warm_start |-> w, initialize |-> ini, solve |-> st, sol |-> sol] :
        w \in BOOLEAN,
        ini \in {"Solve_Succeeded", "Invalid_Option"},
        st \in IpoptStatuses,
        sol \in { [distance |-> [i \in 1..n |-> (i - 1) * Meter + 1],
                   velocity |-> [i \in 1..n |-> IF i = neg THEN -1 ELSE 3 * Meter],
                   acceleration |-> [i \in 1..n |-> 0]] : neg \in {n} } }

----------------------------------------------------------------------------
(* OptimizeByNLP and the emission of Process, as functions *)

MsgNull == "Null speed_data pointer"
MsgEmptyPath == "Speed Optimizer receives empty path data"
MsgQP == "Speed Optimization by Quadratic Programming failed"
MsgWarmStart == "Piecewise jerk speed nonlinear optimizer warm start invalid!"
MsgInitialize == "Piecewise jerk speed nonlinear optimizer failed during initialization"
MsgNLP == "Piecewise jerk speed nonlinear optimizer failed"

WarmStartInvalid(arr) ==
    \/ Len(arr.distance) = 0
    \/ Len(arr.velocity) = 0
    \/ Len(arr.acceleration) = 0
    \/ Len(arr.distance) # Len(arr.velocity)
    \/ Len(arr.velocity) # Len(arr.acceleration)

NLPSolved(st) == st \in {"Solve_Succeeded", "Solved_To_Acceptable_Level"}

\* a mutant of OptimizeByNLP: the results are fetched before the status check
OptimizeByNLP_FetchesFirst(arr, o) ==
    IF o.use_warm_start /\ WarmStartInvalid(arr)
    THEN [status |-> Failed(MsgWarmStart), arrays |-> arr]
    ELSE IF o.initialize # "Solve_Succeeded"
    THEN [status |-> Failed(MsgInitialize), arrays |-> arr]
    ELSE IF ~NLPSolved(o.solve)
    THEN [status |-> Failed(MsgNLP), arrays |-> o.sol]
    ELSE [status |-> OK, arrays |-> o.sol]

\* the return status and the arrays after OptimizeByNLP, for solver outcome o
OptimizeByNLP(arr, o) ==
    IF o.use_warm_start /\ WarmStartInvalid(arr)
    THEN [status |-> Failed(MsgWarmStart), arrays |-> arr]
    ELSE IF o.initialize # "Solve_Succeeded"
    THEN [status |-> Failed(MsgInitialize), arrays |-> arr]
    ELSE IF ~NLPSolved(o.solve)
    THEN [status |-> Failed(MsgNLP), arrays |-> arr]
    ELSE [status |-> OK, arrays |-> o.sol]

\* a mutant of StopsEmission: a zero velocity ends the emission too
StopsEmission_AtZero(v) == v <= 0

\* "Avoid the very last points when already stopped"
StopsEmission(v) == v < 0

\* the loop of lines 165-175, from knot i on
RECURSIVE EmitLoop(_, _, _, _)
EmitLoop(arr, n, i, acc) ==
    IF i >= n THEN acc
    ELSE IF StopsEmission(At(arr.velocity, i)) THEN acc
    ELSE EmitLoop(arr, n, i + 1,
            Append(acc,
                SpeedPoint(At(arr.distance, i), delta_t_ * i, At(arr.velocity, i),
                           At(arr.acceleration, i),
                           ((At(arr.acceleration, i) - At(arr.acceleration, i - 1))
                               * Second) \div delta_t_)))

\* speed_data after lines 161-175
EmitPoints(arr, n) ==
    EmitLoop(arr, n, 1,
        <<SpeedPoint(At(arr.distance, 0), 0, At(arr.velocity, 0),
                     At(arr.acceleration, 0), 0)>>)

FillHorizon == 4 * delta_t_

RECURSIVE PadFrom(_, _, _)
PadFrom(sd, s, t) ==
    IF t >= FillHorizon THEN sd
    ELSE PadFrom(Append(sd, SpeedPoint(s, t, 0, 0, 0)), s, t + delta_t_)

\* SpeedProfileGenerator::FillEnoughSpeedPoints: pads the tail with stopped
\* points at the last station up to the configured horizon
FillEnoughSpeedPoints(sd) ==
    PadFrom(sd, sd[Len(sd)].s, sd[Len(sd)].t + delta_t_)

----------------------------------------------------------------------------
(* Process, stage by stage.  A run r holds the state one execution of        *)
(* Process works on; i is what the call has read; every stage is applied to  *)
(* the optimizer under test and to the freshly constructed one.              *)

Stage(name, self, members) == [stage |-> name, args |-> Reads(self, members)]

Return(r, st) == [r EXCEPT !.pc = "done", !.status = st]

\* a mutant of ValidateStep: the destination branch clears speed_data
ValidateStep_ClearsAtDestination(r, i) ==
    IF i.speed_data_null THEN Return(r, Failed(MsgNull))
    ELSE IF i.path_empty THEN Return(r, Failed(MsgEmptyPath))
    ELSE IF i.reached_destination THEN Return([r EXCEPT !.speed_data = <<>>], OK)
    ELSE [r EXCEPT !.pc = "setup"]

\* lines 74-91
ValidateStep(r, i) ==
    IF i.speed_data_null THEN Return(r, Failed(MsgNull))
    ELSE IF i.path_empty THEN Return(r, Failed(MsgEmptyPath))
    ELSE IF i.reached_destination THEN Return(r, OK)
    ELSE [r EXCEPT !.pc = "setup"]

\* lines 97-103: record_constraints and the status check
SetUpReturn(r, res) ==
    IF ~IsOk(res.status)
    THEN [r EXCEPT !.optimizer = res.self,
                   !.trace = @ \o <<Stage("SetUpStatesAndBounds", r.optimizer, {}),
                                    Stage("record_constraints", res.self, {"s_bounds_"})>>,
                   !.speed_data = <<>>,
                   !.pc = "done",
                   !.status = res.status]
    ELSE [r EXCEPT !.optimizer = res.self,
                   !.trace = @ \o <<Stage("SetUpStatesAndBounds", r.optimizer, {}),
                                    Stage("record_constraints", res.self, {"s_bounds_"})>>,
                   !.pc = "qp"]

\* lines 93-103: SetUpStatesAndBounds, record_constraints, the status check
SetUpStep(r, i) ==
    SetUpReturn(r, SetUpStatesAndBounds(r.optimizer, i.g, r.speed_data))

QPReads ==
    {"max_speed_", "speed_limit_", "num_of_knots_", "s_init_", "s_dot_init_",
     "s_ddot_init_", "s_bounds_"}

\* a mutant of QPStep: the velocities of the QP are not copied out
QPStep_ForgetsVelocity(r, i) ==
    LET after == [r EXCEPT !.trace = Append(@, Stage("OptimizeByQP", r.optimizer, QPReads))]
    IN  IF ~i.qp.ok
        THEN Return([after EXCEPT !.speed_data = <<>>], Failed(MsgQP))
        ELSE [after EXCEPT !.arrays = [i.qp.sol EXCEPT !.velocity = <<>>], !.pc = "check"]

\* a mutant of QPStep: a failed QP returns without clearing speed_data
QPStep_KeepsSpeedData(r, i) ==
    LET after == [r EXCEPT !.trace = Append(@, Stage("OptimizeByQP", r.optimizer, QPReads))]
    IN  IF ~i.qp.ok
        THEN Return(after, Failed(MsgQP))
        ELSE [after EXCEPT !.arrays = i.qp.sol, !.pc = "check"]

\* lines 105-154: OptimizeByQP and the status check
QPStep(r, i) ==
    LET after == [r EXCEPT !.trace = Append(@, Stage("OptimizeByQP", r.optimizer, QPReads))]
    IN  IF ~i.qp.ok
        THEN Return([after EXCEPT !.speed_data = <<>>], Failed(MsgQP))
        ELSE [after EXCEPT !.arrays = i.qp.sol, !.pc = "check"]

\* CheckSpeedLimitFeasibility, lines 516-534
CheckSpeedLimitFeasibility(self) ==
    ~(self.speed_limit_ + kEpsilon < self.s_dot_init_)

\* a mutant of CheckStep: the result of the check is not looked at
CheckStep_ResultIgnored(r, i) ==
    [r EXCEPT !.trace = Append(@,
                  Stage("CheckSpeedLimitFeasibility", r.optimizer,
                        {"speed_limit_", "s_init_", "s_dot_init_"})),
              !.pc = "smooth_curvature"]

\* lines 1097-1107
CheckStep(r, i) ==
    LET after == [r EXCEPT !.trace = Append(@,
                    Stage("CheckSpeedLimitFeasibility", r.optimizer,
                          {"speed_limit_", "s_init_", "s_dot_init_"}))]
    IN  IF CheckSpeedLimitFeasibility(r.optimizer)
        THEN [after EXCEPT !.pc = "smooth_curvature"]
        ELSE [after EXCEPT !.pc = "emit"]

\* lines 1114-1132: SmoothPathCurvature and the status check
SmoothPathCurvatureStep(r, i) ==
    LET after == [r EXCEPT !.trace = Append(@, Stage("SmoothPathCurvature", r.optimizer, {}))]
    IN  IF i.kappa_ok
        THEN [after EXCEPT !.optimizer.smoothed_path_curvature_ = FitCurve(i.path_kappa),
                           !.pc = "smooth_speed_limit"]
        ELSE [after EXCEPT !.speed_data = <<>>, !.pc = "emit"]

\* a mutant of SmoothSpeedLimitStep: a failed smoothing ends the call with
\* the cleared speed_data
SmoothSpeedLimitStep_FailureEndsTheCall(r, i) ==
    LET after == [r EXCEPT !.trace = Append(@,
                    Stage("SmoothSpeedLimit", r.optimizer, {"speed_limit_"}))]
    IN  IF i.vlimit_ok
        THEN [after EXCEPT !.optimizer.smoothed_speed_limit_ =
                               FitCurve(r.optimizer.speed_limit_),
                           !.pc = "nlp"]
        ELSE Return([after EXCEPT !.speed_data = <<>>], OK)

\* lines 1139-1160: SmoothSpeedLimit, the status check, record_nlp_info
SmoothSpeedLimitStep(r, i) ==
    LET after == [r EXCEPT !.trace = Append(@,
                    Stage("SmoothSpeedLimit", r.optimizer, {"speed_limit_"}))]
    IN  IF i.vlimit_ok
        THEN [after EXCEPT !.optimizer.smoothed_speed_limit_ =
                               FitCurve(r.optimizer.speed_limit_),
                           !.pc = "nlp"]
        ELSE [after EXCEPT !.speed_data = <<>>, !.pc = "emit"]

NLPReads(use_soft_bound) ==
    {"s_init_", "s_dot_init_", "s_ddot_init_", "num_of_knots_", "total_length_",
     "s_dot_max_", "s_bounds_", "smoothed_path_curvature_", "smoothed_speed_limit_",
     "cruise_speed_"}
        \cup (IF use_soft_bound THEN {"s_soft_bounds_"} ELSE {})

\* lines 1162-1187: OptimizeByNLP and the status check
NLPStep(r, i, o) ==
    LET res == OptimizeByNLP(r.arrays, o)
        after == [r EXCEPT
                    !.trace = Append(@, Stage("OptimizeByNLP", r.optimizer,
                                              NLPReads(i.g.use_soft_bound))),
                    !.arrays = res.arrays,
                    !.pc = "emit"]
    IN  IF ~IsOk(res.status) THEN [after EXCEPT !.speed_data = <<>>] ELSE after

\* lines 161-175
EmitStep(r, i) ==
    [r EXCEPT !.speed_data = EmitPoints(r.arrays, r.optimizer.num_of_knots_),
              !.trace = Append(@, Stage("AppendSpeedPoint", r.optimizer, {"num_of_knots_"})),
              !.pc = "fill"]

\* lines 176-187
FillStep(r, i) ==
    Return([r EXCEPT !.speed_data = FillEnoughSpeedPoints(r.speed_data)], OK)

----------------------------------------------------------------------------
(* The static mutex of OptimizeByNLP *)

Threads == 1..NumThreads
Objects == 1..NumObjects

\* a mutant of MutexOf: the mutex is a member, one per optimizer object
MutexOf_PerObject(obj) == obj

\* "static std::mutex mutex_tnlp": one mutex for every object of the process
MutexOf(obj) == 0

\* UNIQUE_LOCK_MULTITHREAD(mutex_tnlp): blocks until the mutex is free, then
\* holds it until the enclosing function returns
UniqueLockAcquire(mutexes, m, t) ==
    /\ mutexes[m] = 0
    /\ mutex_tnlp' = [mutexes EXCEPT ![m] = t]

\* a mutant of UniqueLockRelease: the mutex stays locked when the function
\* returns
UniqueLockRelease_Leaks(mutexes, m) == mutex_tnlp' = mutexes

\* the unique_lock leaves scope
UniqueLockRelease(mutexes, m) == mutex_tnlp' = [mutexes EXCEPT ![m] = 0]

----------------------------------------------------------------------------
(* Process as a state machine *)

Run ==
    [pc |-> pc, status |-> status, speed_data |-> speed_data,
     optimizer |-> optimizer, arrays |-> arrays, trace |-> trace]

Commit(r) ==
    /\ pc' = r.pc
    /\ status' = r.status
    /\ speed_data' = r.speed_data
    /\ optimizer' = r.optimizer
    /\ arrays' = r.arrays
    /\ trace' = r.trace

\* a caller invokes Process(path_data, init_point, speed_data)
ProcessEnter ==
    /\ pc \in {"idle", "done"}
    /\ calls < MaxCalls
    /\ \E null \in BOOLEAN, dp \in DPProfiles :
         /\ null => dp = <<>>
         /\ in' = [NoInput EXCEPT
                     !.speed_data_null = null, !.dp = dp,
                     !.before = [status |-> status, optimizer |-> optimizer]]
         /\ speed_data' = dp
         /\ fresh' = [pc |-> "validate", status |-> "running", speed_data |-> dp,
                      optimizer |-> InitOptimizer, arrays |-> NoSol, trace |-> <<>>]
    /\ pc' = "validate"
    /\ status' = "running"
    /\ arrays' = NoSol
    /\ trace' = <<>>
    /\ calls' = calls + 1
    /\ UNCHANGED <<optimizer, nlpVars, pathVars>>

ProcessValidate ==
    /\ pc = "validate"
    /\ \E path_empty \in BOOLEAN, reached \in BOOLEAN :
         /\ in.speed_data_null => ~path_empty
         /\ (in.speed_data_null \/ path_empty) => ~reached
         /\ in' = [in EXCEPT !.path_empty = path_empty, !.reached_destination = reached]
    /\ Commit(ValidateStep(Run, in'))
    /\ fresh' = ValidateStep(fresh, in')
    /\ UNCHANGED <<calls, nlpVars, pathVars>>

SetUpFrom(envs) ==
    /\ pc = "setup"
    /\ \E g \in envs : in' = [in EXCEPT !.g = g]
    /\ Commit(SetUpStep(Run, in'))
    /\ fresh' = SetUpStep(fresh, in')
    /\ UNCHANGED <<calls, nlpVars, pathVars>>

ProcessSetUp == SetUpFrom(Environments)

ProcessQP ==
    /\ pc = "qp"
    /\ \E o \in QPOutcomes(optimizer.num_of_knots_) : in' = [in EXCEPT !.qp = o]
    /\ Commit(QPStep(Run, in'))
    /\ fresh' = IF fresh.pc = "qp" THEN QPStep(fresh, in') ELSE fresh
    /\ UNCHANGED <<calls, nlpVars, pathVars>>

ProcessCheck ==
    /\ pc = "check"
    /\ in' = in
    /\ Commit(CheckStep(Run, in))
    /\ fresh' = IF fresh.pc = "check" THEN CheckStep(fresh, in) ELSE fresh
    /\ UNCHANGED <<calls, nlpVars, pathVars>>

ProcessSmoothPathCurvature ==
    /\ pc = "smooth_curvature"
    /\ \E ok \in BOOLEAN, kappa \in {0, 1} :
         /\ ~ok => kappa = 0
         /\ in' = [in EXCEPT !.kappa_ok = ok, !.path_kappa = kappa]
    /\ Commit(SmoothPathCurvatureStep(Run, in'))
    /\ fresh' = IF fresh.pc = "smooth_curvature"
                THEN SmoothPathCurvatureStep(fresh, in') ELSE fresh
    /\ UNCHANGED <<calls, nlpVars, pathVars>>

ProcessSmoothSpeedLimit ==
    /\ pc = "smooth_speed_limit"
    /\ \E ok \in BOOLEAN : in' = [in EXCEPT !.vlimit_ok = ok]
    /\ Commit(SmoothSpeedLimitStep(Run, in'))
    /\ fresh' = IF fresh.pc = "smooth_speed_limit"
                THEN SmoothSpeedLimitStep(fresh, in') ELSE fresh
    /\ UNCHANGED <<calls, nlpVars, pathVars>>

\* OptimizeByNLP runs under the static mutex, which it takes and gives back
ProcessNLP ==
    /\ pc = "nlp"
    /\ mutex_tnlp[MutexOf(1)] = 0
    /\ \E o \in NLPOutcomes(optimizer.num_of_knots_) :
         /\ in' = [in EXCEPT !.nlp_status = OptimizeByNLP(arrays, o).status]
         /\ Commit(NLPStep(Run, in', o))
         /\ fresh' = IF fresh.pc = "nlp" THEN NLPStep(fresh, in', o) ELSE fresh
    /\ UNCHANGED <<calls, nlpVars, pathVars>>

ProcessEmit ==
    /\ pc = "emit"
    /\ in' = in
    /\ Commit(EmitStep(Run, in))
    /\ fresh' = IF fresh.pc = "emit" THEN EmitStep(fresh, in) ELSE fresh
    /\ UNCHANGED <<calls, nlpVars, pathVars>>

ProcessFill ==
    /\ pc = "fill"
    /\ in' = in
    /\ Commit(FillStep(Run, in))
    /\ fresh' = IF fresh.pc = "fill" THEN FillStep(fresh, in) ELSE fresh
    /\ UNCHANGED <<calls, nlpVars, pathVars>>

----------------------------------------------------------------------------
(* DiscretizedPath: a vector of PathPoint.  A PathPoint is modelled by its  *)
(* station s and two of its interpolated fields, x and kappa.  Iterators    *)
(* are offsets from begin(): 0 is begin(), Len(path) is end().              *)

MaxPathPoints == 3

front(vec) == vec[1]
back(vec) == vec[Len(vec)]

\* a mutant of Length: the station of the last point, as max_s
Length_FromZero(vec) ==
    IF vec = <<>> THEN 0 ELSE back(vec).s

\* DiscretizedPath::Length
Length(vec) ==
    IF vec = <<>> THEN 0 ELSE back(vec).s - front(vec).s

\* DiscretizedPath::max_s
max_s(vec) ==
    IF vec = <<>> THEN 0 ELSE back(vec).s

RECURSIVE LowerBound(_, _, _, _)

\* std::lower_bound with the comparison tp.s() < path_s: a binary search
\* over the len points from offset first
LowerBound(vec, path_s, first, len) ==
    IF len <= 0 THEN first
    ELSE IF At(vec, first + len \div 2).s < path_s
    THEN LowerBound(vec, path_s, first + len \div 2 + 1, len - len \div 2 - 1)
    ELSE LowerBound(vec, path_s, first, len \div 2)

\* DiscretizedPath::QueryLowerBound
QueryLowerBound(vec, path_s) == LowerBound(vec, path_s, 0, Len(vec))

\* (1 - weight) * v0 + weight * v1 with weight = (s - s0) / (s1 - s0)
Lerp(v0, s0, v1, s1, s) == v0 + ((v1 - v0) * (s - s0)) \div (s1 - s0)

\* common::math::InterpolateUsingLinearApproximation on two path points
InterpolateUsingLinearApproximation(p0, p1, s) ==
    [s |-> s,
     x |-> Lerp(p0.x, p0.s, p1.x, p1.s, s),
     kappa |-> Lerp(p0.kappa, p0.s, p1.kappa, p1.s, s)]

\* ACHECK(!empty()) fails: the process is aborted
Aborted == "ACHECK failed"

\* a mutant of Evaluate: past the end the station asked for is written into
\* the returned point
Evaluate_Extrapolates(vec, path_s) ==
    IF vec = <<>> THEN Aborted
    ELSE IF QueryLowerBound(vec, path_s) = 0 THEN front(vec)
    ELSE IF QueryLowerBound(vec, path_s) = Len(vec)
    THEN [back(vec) EXCEPT !.s = path_s]
    ELSE InterpolateUsingLinearApproximation(
             At(vec, QueryLowerBound(vec, path_s) - 1),
             At(vec, QueryLowerBound(vec, path_s)), path_s)

\* DiscretizedPath::Evaluate
Evaluate(vec, path_s) ==
    IF vec = <<>> THEN Aborted
    ELSE IF QueryLowerBound(vec, path_s) = 0 THEN front(vec)
    ELSE IF QueryLowerBound(vec, path_s) = Len(vec) THEN back(vec)
    ELSE InterpolateUsingLinearApproximation(
             At(vec, QueryLowerBound(vec, path_s) - 1),
             At(vec, QueryLowerBound(vec, path_s)), path_s)

\* the path points and the stations asked for: stations on, between, before
\* and past the points
PathPoints ==
    { [s |-> s, x |-> x, kappa |-> k] :
        s \in {Meter, 3 * Meter, 5 * Meter}, x \in {0, 400}, k \in {0, 200} }

Paths == UNION { [1..n -> PathPoints] : n \in 0..MaxPathPoints }

Stations == { i * Meter : i \in 0..6 }

NoCall == [op |-> "none", path_s |-> 0, ret |-> 0]

\* no DiscretizedPath call is part of the run
NoPath ==
    /\ path = <<>>
    /\ path_ret = NoCall

\* a const member function is called on path
PathLength ==
    /\ path_ret' = [op |-> "Length", path_s |-> 0, ret |-> Length(path)]
    /\ UNCHANGED <<path, procVars, nlpVars>>

PathMaxS ==
    /\ path_ret' = [op |-> "max_s", path_s |-> 0, ret |-> max_s(path)]
    /\ UNCHANGED <<path, procVars, nlpVars>>

PathEvaluate ==
    /\ \E path_s \in Stations :
         path_ret' = [op |-> "Evaluate", path_s |-> path_s,
                      ret |-> Evaluate(path, path_s)]
    /\ UNCHANGED <<path, procVars, nlpVars>>

InitProcess ==
    /\ pc = "idle"
    /\ status = "none"
    /\ in = NoInput
    /\ speed_data = <<>>
    /\ optimizer = InitOptimizer
    /\ arrays = NoSol
    /\ trace = <<>>
    /\ calls = 0
    /\ fresh = [pc |-> "idle", status |-> "none", speed_data |-> <<>>,
                optimizer |-> InitOptimizer, arrays |-> NoSol, trace |-> <<>>]

InitNLP ==
    /\ nlp_pc = [t \in Threads |-> "idle"]
    /\ nlp_obj = [t \in Threads |-> 1]
    /\ nlp_args = [t \in Threads |-> [use_warm_start |-> FALSE, arrays |-> NoSol]]
    /\ nlp_ret = [t \in Threads |-> "none"]
    /\ mutex_tnlp = [m \in 0..NumObjects |-> 0]

Init == InitProcess /\ InitNLP /\ NoPath

Next ==
    \/ ProcessEnter
    \/ ProcessValidate
    \/ ProcessSetUp
    \/ ProcessQP
    \/ ProcessCheck
    \/ ProcessSmoothPathCurvature
    \/ ProcessSmoothSpeedLimit
    \/ ProcessNLP
    \/ ProcessEmit
    \/ ProcessFill

Spec == Init /\ [][Next]_vars

----------------------------------------------------------------------------
(* SpecNLP: threads that call OptimizeByNLP directly *)

\* the arrays a caller can pass: none, mismatched lengths, two knots each
\* (without a warm start the function does not look at them)
WarmStarts ==
    { NoSol,
      [distance |-> <<0, Meter>>, velocity |-> <<Meter>>, acceleration |-> <<0, 0>>],
      [distance |-> <<0, Meter>>, velocity |-> <<Meter, Meter>>,
       acceleration |-> <<0, 0>>] }

\* what get_optimization_results writes
NLPResult ==
    [distance |-> <<0, 2 * Meter>>, velocity |-> <<Meter, 3 * Meter>>,
     acceleration |-> <<0, Meter>>]

NlpInside == {"interface", "initialize", "optimize", "retrieve"}

\* the function returns: the status goes back and the lock leaves scope
NlpReturn(t, st) ==
    /\ nlp_pc' = [nlp_pc EXCEPT ![t] = "returned"]
    /\ nlp_ret' = [nlp_ret EXCEPT ![t] = st]
    /\ UniqueLockRelease(mutex_tnlp, MutexOf(nlp_obj[t]))

NlpCall(t) ==
    /\ nlp_pc[t] \in {"idle", "returned"}
    /\ \E obj \in Objects, w \in BOOLEAN, arr \in WarmStarts :
         /\ ~w => arr = NoSol
         /\ nlp_obj' = [nlp_obj EXCEPT ![t] = obj]
         /\ nlp_args' = [nlp_args EXCEPT ![t] = [use_warm_start |-> w, arrays |-> arr]]
    /\ nlp_pc' = [nlp_pc EXCEPT ![t] = "lock"]
    /\ nlp_ret' = [nlp_ret EXCEPT ![t] = "running"]
    /\ UNCHANGED <<mutex_tnlp, procVars, pathVars>>

\* lines 723-724
NlpLock(t) ==
    /\ nlp_pc[t] = "lock"
    /\ UniqueLockAcquire(mutex_tnlp, MutexOf(nlp_obj[t]), t)
    /\ nlp_pc' = [nlp_pc EXCEPT ![t] = "interface"]
    /\ UNCHANGED <<nlp_obj, nlp_args, nlp_ret, procVars, pathVars>>

\* lines 726-803: the interface is built and the warm start is checked
NlpInterface(t) ==
    /\ nlp_pc[t] = "interface"
    /\ IF nlp_args[t].use_warm_start /\ WarmStartInvalid(nlp_args[t].arrays)
       THEN NlpReturn(t, Failed(MsgWarmStart))
       ELSE /\ nlp_pc' = [nlp_pc EXCEPT ![t] = "initialize"]
            /\ UNCHANGED <<nlp_ret, mutex_tnlp>>
    /\ UNCHANGED <<nlp_obj, nlp_args, procVars, pathVars>>

\* lines 805-819
NlpInitialize(t) ==
    /\ nlp_pc[t] = "initialize"
    /\ \E ini \in {"Solve_Succeeded", "Invalid_Option"} :
         IF ini # "Solve_Succeeded"
         THEN NlpReturn(t, Failed(MsgInitialize))
         ELSE /\ nlp_pc' = [nlp_pc EXCEPT ![t] = "optimize"]
              /\ UNCHANGED <<nlp_ret, mutex_tnlp>>
    /\ UNCHANGED <<nlp_obj, nlp_args, procVars, pathVars>>

\* lines 821-861
NlpOptimize(t) ==
    /\ nlp_pc[t] = "optimize"
    /\ \E st \in IpoptStatuses :
         IF ~NLPSolved(st)
         THEN NlpReturn(t, Failed(MsgNLP))
         ELSE /\ nlp_pc' = [nlp_pc EXCEPT ![t] = "retrieve"]
              /\ UNCHANGED <<nlp_ret, mutex_tnlp>>
    /\ UNCHANGED <<nlp_obj, nlp_args, procVars, pathVars>>

\* lines 863-866
NlpRetrieve(t) ==
    /\ nlp_pc[t] = "retrieve"
    /\ nlp_args' = [nlp_args EXCEPT ![t].arrays = NLPResult]
    /\ NlpReturn(t, OK)
    /\ UNCHANGED <<nlp_obj, procVars, pathVars>>

NextNLP ==
    \E t \in Threads :
        \/ NlpCall(t)
        \/ NlpLock(t)
        \/ NlpInterface(t)
        \/ NlpInitialize(t)
        \/ NlpOptimize(t)
        \/ NlpRetrieve(t)

SpecNLP == Init /\ [][NextNLP]_vars

\* the scheduling of the threads: a step inside the function is taken when it
\* stays possible (each solver call returns), and a thread that finds the
\* mutex free again and again gets it; nothing makes a thread call
FairNLP ==
    \A t \in Threads :
        /\ SF_vars(NlpLock(t))
        /\ WF_vars(NlpInterface(t))
        /\ WF_vars(NlpInitialize(t))
        /\ WF_vars(NlpOptimize(t))
        /\ WF_vars(NlpRetrieve(t))

SpecNLPFair == Init /\ [][NextNLP]_vars /\ FairNLP

----------------------------------------------------------------------------
(* SpecEmit: the emission of Process over every solver result *)

\* the arrays the solvers can leave for n knots: a velocity is negative
\* within tolerance, zero or positive, and the acceleration varies
EmitArrays(n) ==
    { [distance |-> [i \in 1..n |-> (i - 1) * Meter],
       velocity |-> vel,
       acceleration |-> acc] :
      vel \in [1..n -> {-1, 0, 2 * Meter}],
      acc \in [1..n -> {0, 100000}] }

\* Process has reached line 161 with the solvers' arrays
InitEmit ==
    /\ pc = "emit"
    /\ status = "running"
    /\ calls = 1
    /\ trace = <<>>
    /\ speed_data = <<>>
    /\ \E n \in 1..MaxKnots :
         /\ optimizer = [InitOptimizer EXCEPT !.num_of_knots_ = n]
         /\ arrays \in EmitArrays(n)
    /\ in = [NoInput EXCEPT !.speed_data_null = FALSE, !.qp = [ok |-> TRUE, sol |-> arrays]]
    /\ fresh = Run
    /\ InitNLP
    /\ NoPath

NextEmit ==
    \/ ProcessEmit
    \/ ProcessFill

SpecEmit == InitEmit /\ [][NextEmit]_vars

----------------------------------------------------------------------------
(* SpecBounds: SetUpStatesAndBounds over lists of ST boundaries *)

\* a YIELD boundary whose end-interaction point lies at the first knot
YieldAtPoi(s_upper) ==
    [Boundary("YIELD", s_upper, 0, 0) EXCEPT
        !.poi_valid = TRUE, !.poi_time = 0, !.poi_s_gap = 2 * Meter]

\* the ST boundaries of SpecBounds: walls at and near the ego position, on
\* the path and beyond its end, present from the first or the second knot
BoundarySet ==
    { Boundary("STOP", u, 0, t) : u \in {0, 50000, 12 * Meter, 25 * Meter},
                                  t \in {0, delta_t_} }
    \cup { Boundary("YIELD", u, 0, 0) : u \in {500000, 12 * Meter} }
    \cup { YieldAtPoi(12 * Meter) }
    \cup { Boundary("FOLLOW", u, 0, 0) : u \in {2 * Meter, 12 * Meter} }
    \cup { Boundary("OVERTAKE", 200 * Meter, l, t) :
             l \in {50000, 12 * Meter, 30 * Meter}, t \in {0, delta_t_} }
    \cup { Boundary("KEEP_CLEAR", 5 * Meter, 0, 0) }

\* the lists of at most n boundaries
BoundaryLists(n) ==
    UNION { [1..k -> BoundarySet] : k \in 0..n }

BoundsEnvironments ==
    { [use_soft_bound |-> soft, total_length |-> len, total_time |-> delta_t_,
       init_v |-> 0, init_a |-> 0, st_boundaries |-> bs,
       speed_limit |-> EnvSpeedLimit, max_speed |-> 15 * Meter,
       cruise_speed |-> 8 * Meter, emergency_brake |-> ebk] :
      soft \in BOOLEAN, len \in {0, EnvLength}, bs \in BoundaryLists(MaxBoundaries),
      ebk \in {<<>>, Profile(2, 0, Meter)} }

\* Process has reached line 94 on a freshly constructed optimizer
InitBounds ==
    /\ pc = "setup"
    /\ status = "running"
    /\ calls = 1
    /\ trace = <<>>
    /\ arrays = NoSol
    /\ optimizer = InitOptimizer
    /\ speed_data \in DPProfiles
    /\ in = [NoInput EXCEPT !.dp = speed_data]
    /\ fresh = Run
    /\ InitNLP
    /\ NoPath

ProcessSetUpBounds == SetUpFrom(BoundsEnvironments)

NextBounds == ProcessSetUpBounds

SpecBounds == InitBounds /\ [][NextBounds]_vars

----------------------------------------------------------------------------
(* SpecPath: the const member functions of DiscretizedPath on every path *)

InitPath ==
    /\ InitProcess
    /\ InitNLP
    /\ path \in Paths
    /\ path_ret = NoCall

NextPath ==
    \/ PathLength
    \/ PathMaxS
    \/ PathEvaluate

SpecPath == InitPath /\ [][NextPath]_vars

----------------------------------------------------------------------------
(* Properties of Process, checked under Spec *)

SmoothingStages == {"SmoothPathCurvature", "SmoothSpeedLimit", "OptimizeByNLP"}

Ran(stage) == \E k \in 1..Len(trace) : trace[k].stage = stage

\* C++ index of the first knot after knot 0 whose velocity is negative, or n
EmittedKnots(arr, n) ==
    IF \E i \in 1..(n - 1) : At(arr.velocity, i) < 0
    THEN CHOOSE i \in 1..(n - 1) :
            /\ At(arr.velocity, i) < 0
            /\ \A j \in 1..(i - 1) : At(arr.velocity, j) >= 0
    ELSE n

\* the first k points of sd carry knots 0..k-1 of arr
KnotsOf(sd, arr, k) ==
    /\ Len(sd) >= k
    /\ \A i \in 0..(k - 1) :
         /\ At(sd, i).s = At(arr.distance, i)
         /\ At(sd, i).t = i * delta_t_
         /\ At(sd, i).v = At(arr.velocity, i)
         /\ At(sd, i).a = At(arr.acceleration, i)

\* C1: whenever Process was given a non-null speed_data and returns a non-OK
\* status, speed_data is empty on return.
C1_ErrorLeavesSpeedDataEmpty ==
    (pc = "done" /\ ~in.speed_data_null /\ ~IsOk(status)) => speed_data = <<>>

NLPFailed == in.nlp_status \notin {"none", OK}

\* C2: when the QP succeeded and OptimizeByNLP returned an error, the arrays
\* are exactly the QP's, Process returns OK and the SpeedData carries the
\* knots of the QP result.
C2_NLPFailureFallsBackToQP ==
    NLPFailed =>
        /\ in.qp.ok
        /\ arrays = in.qp.sol
        /\ pc \in {"emit", "fill", "done"}
        /\ pc = "done" =>
              /\ status = OK
              /\ KnotsOf(speed_data, in.qp.sol,
                         EmittedKnots(in.qp.sol, optimizer.num_of_knots_))

\* C2's case: a call whose NLP solve ended infeasible has returned
C2_Witness ==
    /\ pc = "done"
    /\ in.nlp_status = Failed(MsgNLP)
    /\ status = OK
    /\ Len(in.qp.sol.distance) = MaxKnots

QPFailed == Ran("OptimizeByQP") /\ ~in.qp.ok

\* C3: when the QP fails, speed_data is cleared, the QP's error is returned,
\* and no curvature smoothing, speed-limit smoothing or NLP is invoked.
C3_QPFailureEndsTheCall ==
    QPFailed =>
        /\ pc = "done"
        /\ status = Failed(MsgQP)
        /\ speed_data = <<>>
        /\ \A st \in SmoothingStages : ~Ran(st)

\* C3's case: the QP failed in a call that was handed a DP profile
C3_Witness ==
    /\ QPFailed
    /\ pc = "done"
    /\ in.dp # <<>>

\* C4: with a non-null speed_data, a non-empty path and the destination
\* reached, Process returns OK, runs no stage, and leaves speed_data and
\* every optimizer member as they were.
C4_ReachedDestinationChangesNothing ==
    (~in.speed_data_null /\ ~in.path_empty /\ in.reached_destination) =>
        /\ pc = "done"
        /\ status = OK
        /\ trace = <<>>
        /\ arrays = NoSol
        /\ speed_data = in.dp
        /\ optimizer = in.before.optimizer

\* C4's case: the destination is reached in a call with a DP profile on an
\* optimizer whose bounds an earlier call built
C4_Witness ==
    /\ pc = "done"
    /\ in.reached_destination
    /\ in.dp # <<>>
    /\ in.before.optimizer.s_bounds_ # <<>>

C8_CallOnUsedAsOnFresh ==
    pc # "idle" =>
        /\ fresh.pc = pc
        /\ fresh.status = status
        /\ fresh.speed_data = speed_data
        /\ fresh.arrays = arrays
        /\ fresh.trace = trace

\* C8's case: a second call has run through the NLP to success on an
\* optimizer whose first call left other bounds, dimensions and curves
C8_Witness ==
    /\ calls = 2
    /\ pc = "done"
    /\ status = OK
    /\ Ran("OptimizeByNLP")
    /\ in.before.status = OK
    /\ in.before.optimizer.num_of_knots_ > optimizer.num_of_knots_
    /\ in.before.optimizer.s_soft_bounds_ # <<>>
    /\ ~in.g.use_soft_bound
    /\ in.before.optimizer.smoothed_path_curvature_ = FitCurve(1)
    /\ in.path_kappa = 0

SetUpSucceeded == pc = "qp" \/ Ran("OptimizeByQP")

IsBand(pair) == pair[1] <= pair[2]

\* C9: after SetUpStatesAndBounds returned OK, s_bounds_ holds num_of_knots_
\* pairs with lower <= upper, and in soft-bound mode s_soft_bounds_ holds
\* num_of_knots_ pairs, on every call.
C9_BoundsHaveOnePairPerKnot ==
    SetUpSucceeded =>
        /\ Len(optimizer.s_bounds_) = optimizer.num_of_knots_
        /\ \A k \in 1..Len(optimizer.s_bounds_) : IsBand(optimizer.s_bounds_[k])
        /\ in.g.use_soft_bound =>
              Len(optimizer.s_soft_bounds_) = optimizer.num_of_knots_

\* C9's case: a soft-bound build succeeds after the previous call failed
\* part-way through the knot loop and left fewer pairs than knots
C9_Witness ==
    /\ pc = "qp"
    /\ in.g.use_soft_bound
    /\ optimizer.num_of_knots_ = MaxKnots
    /\ ~IsOk(in.before.status)
    /\ Len(in.before.optimizer.s_bounds_) > 0
    /\ Len(in.before.optimizer.s_bounds_) < in.before.optimizer.num_of_knots_

----------------------------------------------------------------------------
(* Properties of the emission, checked under SpecEmit *)

\* C5: the points written before the tail padding are knots 0..k-1 in order,
\* k the least index >= 1 of a negative velocity or N; point 0 has t = 0 and
\* j = 0, point i has t = i*dt and j = (a[i] - a[i-1]) / dt; t increases
\* strictly.
C5_EmissionIsTheKnotsBeforeTheFirstNegative ==
    pc \in {"fill", "done"} =>
        /\ pc = "fill" => Len(speed_data) = EmittedKnots(arrays, optimizer.num_of_knots_)
        /\ KnotsOf(speed_data, arrays, EmittedKnots(arrays, optimizer.num_of_knots_))
        /\ At(speed_data, 0).j = 0
        /\ \A i \in 1..(EmittedKnots(arrays, optimizer.num_of_knots_) - 1) :
              /\ At(speed_data, i).j * delta_t_ =
                    (At(arrays.acceleration, i) - At(arrays.acceleration, i - 1)) * Second
              /\ At(speed_data, i).t > At(speed_data, i - 1).t

\* C5's case: a zero velocity at knot 1 is emitted, the negative one at knot 2
\* ends the emission before the last knot
C5_Witness ==
    /\ pc = "fill"
    /\ optimizer.num_of_knots_ = MaxKnots
    /\ At(arrays.velocity, 1) = 0
    /\ At(arrays.velocity, 2) < 0
    /\ At(arrays.acceleration, 1) # At(arrays.acceleration, 0)
    /\ Len(speed_data) = 2

----------------------------------------------------------------------------
(* Properties of the static mutex, checked under SpecNLP *)

\* C7: at most one thread is between acquiring the static mutex and
\* returning from OptimizeByNLP, whatever objects the threads call it on.
C7_OneThreadInsideOptimizeByNLP ==
    \A t1, t2 \in Threads :
        (nlp_pc[t1] \in NlpInside /\ nlp_pc[t2] \in NlpInside) => t1 = t2

\* C7's case: a thread is in the solve on one object while another thread
\* waits for the mutex in a call on another object
C7_Witness ==
    \E t1, t2 \in Threads :
        /\ nlp_pc[t1] = "optimize"
        /\ nlp_pc[t2] = "lock"
        /\ nlp_obj[t1] # nlp_obj[t2]

----------------------------------------------------------------------------
(* Properties of the bounds build, checked under SpecBounds *)

SoftBuildSucceeded == pc = "qp" /\ in.g.use_soft_bound

\* the STOP boundaries whose GetUnblockSRange succeeds at knot i
StopWallsAt(i) ==
    { k \in DOMAIN in.g.st_boundaries :
        /\ in.g.st_boundaries[k].type = "STOP"
        /\ GetUnblockSRange(in.g.st_boundaries[k], i * delta_t_).ok }

WallOf(k, i) == GetUnblockSRange(in.g.st_boundaries[k], i * delta_t_).s_upper

HardBand(i) == At(optimizer.s_bounds_, i)
SoftBand(i) == At(optimizer.s_soft_bounds_, i)

\* the emergency-brake curve evaluates at knot i of a build with boundaries
EbkAt(i) == EvaluateByTime(in.g.emergency_brake, i * delta_t_)

\* C10 as stated: in a successful soft-bound build, at every knot the hard
\* and the soft upper bound are at most the upper value of every STOP
\* boundary present at that knot.
C10_StopWallNeverExceeded ==
    SoftBuildSucceeded =>
        \A i \in 0..(optimizer.num_of_knots_ - 1) : \A k \in StopWallsAt(i) :
            /\ HardBand(i)[2] <= WallOf(k, i)
            /\ SoftBand(i)[2] <= WallOf(k, i)

\* C10 amended: in a successful soft-bound build, at every knot and for
\* every STOP boundary present there with upper value u, the hard upper
\* bound is at most u, or at most the hard lower bound + 0.1 (collapse
\* repair), or at most the emergency-brake station + 0.2; the soft upper
\* bound is at most u or at most the soft lower bound + 0.1.
C10_StopWallExceededOnlyByRepairs ==
    SoftBuildSucceeded =>
        \A i \in 0..(optimizer.num_of_knots_ - 1) : \A k \in StopWallsAt(i) :
            /\ \/ HardBand(i)[2] <= WallOf(k, i)
               \/ HardBand(i)[2] <= HardBand(i)[1] + k_s_bound_error
               \/ EbkAt(i).ok /\ HardBand(i)[2] <= EbkAt(i).s + 200000
            /\ \/ SoftBand(i)[2] <= WallOf(k, i)
               \/ SoftBand(i)[2] <= SoftBand(i)[1] + k_s_bound_error

\* C10's case: a build with a STOP wall that both bounds of knot 0 exceed
\* and a STOP wall that both bounds of knot 1 respect
C10_Witness ==
    /\ SoftBuildSucceeded
    /\ \E k \in StopWallsAt(0) :
          HardBand(0)[2] > WallOf(k, 0) /\ SoftBand(0)[2] > WallOf(k, 0)
    /\ StopWallsAt(1) # {}
    /\ \A k \in StopWallsAt(1) :
          HardBand(1)[2] <= WallOf(k, 1) /\ SoftBand(1)[2] <= WallOf(k, 1)

\* the OVERTAKE boundaries whose GetUnblockSRange succeeds at knot i
OvertakesAt(i) ==
    { k \in DOMAIN in.g.st_boundaries :
        /\ in.g.st_boundaries[k].type = "OVERTAKE"
        /\ GetUnblockSRange(in.g.st_boundaries[k], i * delta_t_).ok }

FloorOf(k, i) == GetUnblockSRange(in.g.st_boundaries[k], i * delta_t_).s_lower

C12_SoftPairInsideHardPair ==
    SoftBuildSucceeded =>
        \A i \in 0..(optimizer.num_of_knots_ - 1) :
            /\ HardBand(i)[1] <= SoftBand(i)[1]
            /\ SoftBand(i)[2] <= HardBand(i)[2]

----------------------------------------------------------------------------
(* Properties of the bounds build inside Process, checked under Spec *)

\* the knots at which the lookup in the DP profile fails
DpMisses ==
    { i \in 0..(optimizer.num_of_knots_ - 1) :
        ~EvaluateByTime(in.dp, i * delta_t_).ok }

Least(S) == CHOOSE i \in S : \A j \in S : i <= j

\* C13: in soft-bound mode the build fails with the rough-speed-profile
\* error exactly when there are ST boundaries and the DP profile lookup
\* fails at some knot, and it fails at the first such knot; without ST
\* boundaries it cannot fail so; on the failure Process returns the error
\* with speed_data cleared.
C13_RoughProfileFailure ==
    (Ran("SetUpStatesAndBounds") /\ in.g.use_soft_bound) =>
        /\ status = Failed(MsgRough) <=>
              (in.g.st_boundaries # <<>> /\ DpMisses # {})
        /\ status = Failed(MsgRough) =>
              /\ pc = "done"
              /\ speed_data = <<>>
              /\ ~Ran("OptimizeByQP")
              /\ Len(optimizer.s_bounds_) = Least(DpMisses)
              /\ Len(optimizer.s_soft_bounds_) = Least(DpMisses)

\* C13's case: the lookup fails at the third knot, after two good knots, in
\* a call that was handed a DP profile
C13_Witness ==
    /\ pc = "done"
    /\ status = Failed(MsgRough)
    /\ in.dp # <<>>
    /\ in.g.use_soft_bound
    /\ Len(optimizer.s_bounds_) = 2

----------------------------------------------------------------------------
(* The build without ST boundaries, checked under SpecBounds *)

SetUpReturned == pc # "setup"

\* C14: with no ST boundaries and total_length >= 0 the build succeeds and
\* the hard pair of every knot, and in soft-bound mode the soft pair too, is
\* (0, total_length); the emergency-brake curve adjusts nothing.
C14_NoBoundariesGiveTheWholePath ==
    (SetUpReturned /\ in.g.st_boundaries = <<>> /\ in.g.total_length >= 0) =>
        /\ pc = "qp"
        /\ Len(optimizer.s_bounds_) = optimizer.num_of_knots_
        /\ \A i \in 0..(optimizer.num_of_knots_ - 1) :
               HardBand(i) = <<0, in.g.total_length>>
        /\ in.g.use_soft_bound =>
               /\ Len(optimizer.s_soft_bounds_) = optimizer.num_of_knots_
               /\ \A i \in 0..(optimizer.num_of_knots_ - 1) :
                      SoftBand(i) = <<0, in.g.total_length>>

\* C14's case: a soft-bound build without boundaries whose emergency-brake
\* curve lies beyond the end of the path and whose DP profile is empty
C14_Witness ==
    /\ pc = "qp"
    /\ in.g.use_soft_bound
    /\ in.g.st_boundaries = <<>>
    /\ in.dp = <<>>
    /\ EbkAt(0).ok
    /\ EbkAt(0).s + 200000 > in.g.total_length
    /\ HardBand(0) = <<0, in.g.total_length>>

----------------------------------------------------------------------------
(* The warm start of OptimizeByNLP, checked under SpecNLP *)

\* C15: a call of OptimizeByNLP with the warm start enabled and arrays that
\* are empty or of different sizes does not abort on them: it never returns
\* the warm-start error, so a call that has returned has been through the
\* solve.
C15_InvalidWarmStartStillSolves ==
    \A t \in Threads :
        (/\ nlp_pc[t] = "returned"
         /\ nlp_args[t].use_warm_start
         /\ WarmStartInvalid(nlp_args[t].arrays)) =>
            nlp_ret[t] \in {OK, Failed(MsgInitialize), Failed(MsgNLP)}

----------------------------------------------------------------------------
(* Properties of DiscretizedPath, checked under SpecPath *)

\* what Length and max_s have returned, whenever one of them was the last call
LengthAndMaxSReturn ==
    /\ (path_ret.op = "Length" /\ Len(path) = 0) => path_ret.ret = 0
    /\ (path_ret.op = "Length" /\ Len(path) > 0) =>
           path_ret.ret = path[Len(path)].s - path[1].s
    /\ (path_ret.op = "max_s" /\ Len(path) = 0) => path_ret.ret = 0
    /\ (path_ret.op = "max_s" /\ Len(path) > 0) =>
           path_ret.ret = path[Len(path)].s

\* C16: Length() returns back().s - front().s for a non-empty path and 0 for
\* an empty one, max_s() returns back().s for a non-empty path and 0 for an
\* empty one, and neither call changes the path.
C16_LengthAndMaxS ==
    /\ []LengthAndMaxSReturn
    /\ [][path_ret'.op \in {"Length", "max_s"} => path' = path]_vars

\* C16's case: Length was called on a path of several points that does not
\* start at station 0
C16_Witness ==
    /\ path_ret.op = "Length"
    /\ Len(path) >= 2
    /\ path[1].s > 0
    /\ path_ret.ret > 0

\* Evaluate was the last call, on a non-empty path with non-decreasing s
EvaluatedOnSortedPath ==
    /\ path_ret.op = "Evaluate"
    /\ path # <<>>
    /\ \A i \in 1..(Len(path) - 1) : path[i].s <= path[i + 1].s

\* the first index (from 1) whose point has s >= path_s
FirstAtOrPast(path_s) ==
    CHOOSE k \in 1..Len(path) :
        /\ path[k].s >= path_s
        /\ \A j \in 1..(k - 1) : path[j].s < path_s

\* front() up to the first station, back() past the last one, and between
\* them the interpolation on the pair that ends at the first point at or
\* past path_s; the returned s is path_s clamped to the path
EvaluateReturn ==
    EvaluatedOnSortedPath =>
        /\ path_ret.path_s <= path[1].s => path_ret.ret = path[1]
        /\ path_ret.path_s > path[Len(path)].s => path_ret.ret = path[Len(path)]
        /\ (path_ret.path_s > path[1].s /\ path_ret.path_s <= path[Len(path)].s) =>
               path_ret.ret = InterpolateUsingLinearApproximation(
                                  path[FirstAtOrPast(path_ret.path_s) - 1],
                                  path[FirstAtOrPast(path_ret.path_s)],
                                  path_ret.path_s)
        /\ path_ret.ret.s = Max(path[1].s, Min(path[Len(path)].s, path_ret.path_s))

\* C17 as stated: Evaluate returns front(), back() or the interpolation as
\* above, and at the s of any point of the path it returns that point.
C17_EvaluateReturnsThePointAtItsStation ==
    /\ EvaluateReturn
    /\ EvaluatedOnSortedPath =>
           \A j \in 1..Len(path) :
               path[j].s = path_ret.path_s => path_ret.ret = path[j]

\* C17 amended: Evaluate returns front(), back() or the interpolation as
\* above, and at the s of a point of the path it returns the first point
\* with that s (the point itself when no earlier point shares its s).
C17_EvaluateReturnsTheFirstPointAtAStation ==
    /\ EvaluateReturn
    /\ EvaluatedOnSortedPath =>
           \A j \in 1..Len(path) :
               (/\ path[j].s = path_ret.path_s
                /\ \A i \in 1..(j - 1) : path[i].s < path[j].s) =>
                   path_ret.ret = path[j]

\* C17's case: Evaluate at a station shared by the last two points of a
\* three-point path returns the first of the two
C17_Witness ==
    /\ EvaluatedOnSortedPath
    /\ Len(path) = 3
    /\ path[1].s < path[2].s
    /\ path[2].s = path[3].s
    /\ path[2] # path[3]
    /\ path_ret.path_s = path[3].s
    /\ path_ret.ret = path[2]

----------------------------------------------------------------------------
(* The order of the stages of Process, checked under Spec *)

\* the place of a stage in the trace of the call, 0 when it has not run
Pos(stage) ==
    IF Ran(stage) THEN CHOOSE k \in 1..Len(trace) : trace[k].stage = stage ELSE 0

Once(stage) ==
    Cardinality({ k \in 1..Len(trace) : trace[k].stage = stage }) <= 1

\* the initial speed is at most the speed limit at s_init plus 1e-6
InitSpeedFeasible == in.g.init_v <= in.g.speed_limit + kEpsilon

\* C18: within one call OptimizeByNLP is invoked only after the QP succeeded,
\* then CheckSpeedLimitFeasibility returned true, then the curvature
\* smoothing succeeded, then the speed-limit smoothing succeeded; the
\* speed-limit smoothing runs only after a successful curvature smoothing.
C18_NLPOnlyAfterEveryEarlierStage ==
    /\ \A st \in SmoothingStages \cup {"OptimizeByQP", "CheckSpeedLimitFeasibility"} :
           Once(st)
    /\ Ran("OptimizeByNLP") =>
           /\ in.qp.ok /\ InitSpeedFeasible /\ in.kappa_ok /\ in.vlimit_ok
           /\ 0 < Pos("OptimizeByQP")
           /\ Pos("OptimizeByQP") < Pos("CheckSpeedLimitFeasibility")
           /\ Pos("CheckSpeedLimitFeasibility") < Pos("SmoothPathCurvature")
           /\ Pos("SmoothPathCurvature") < Pos("SmoothSpeedLimit")
           /\ Pos("SmoothSpeedLimit") < Pos("OptimizeByNLP")
    /\ Ran("SmoothSpeedLimit") =>
           /\ in.kappa_ok
           /\ 0 < Pos("SmoothPathCurvature")
           /\ Pos("SmoothPathCurvature") < Pos("SmoothSpeedLimit")

\* C18's case: the second call on the object has invoked OptimizeByNLP
C18_Witness ==
    /\ calls = 2
    /\ pc = "emit"
    /\ Ran("OptimizeByNLP")

\* the QP of this call succeeded and a stage before the NLP solve said no:
\* the feasibility check, or a smoothing that was reached and failed
NLPSkipped ==
    /\ Ran("OptimizeByQP")
    /\ in.qp.ok
    /\ \/ Ran("CheckSpeedLimitFeasibility") /\ ~InitSpeedFeasible
       \/ Ran("SmoothPathCurvature") /\ ~in.kappa_ok
       \/ Ran("SmoothSpeedLimit") /\ ~in.vlimit_ok

\* C19: when the QP succeeded and the feasibility check, the curvature
\* smoothing or the speed-limit smoothing fails, OptimizeByNLP is not
\* invoked, Process returns OK and the SpeedData carries the knots of the
\* unmodified QP arrays.
C19_SkippedNLPKeepsTheQPResult ==
    NLPSkipped =>
        /\ ~Ran("OptimizeByNLP")
        /\ arrays = in.qp.sol
        /\ pc \in {"emit", "fill", "done"}
        /\ pc = "done" =>
              /\ status = OK
              /\ KnotsOf(speed_data, in.qp.sol,
                         EmittedKnots(in.qp.sol, optimizer.num_of_knots_))

\* C19's case: a call whose speed-limit smoothing failed has returned the
\* knots of a QP result of full length
C19_Witness ==
    /\ pc = "done"
    /\ Ran("SmoothSpeedLimit")
    /\ ~in.vlimit_ok
    /\ status = OK
    /\ Len(in.qp.sol.distance) = MaxKnots
    /\ Len(speed_data) >= MaxKnots

----------------------------------------------------------------------------
(* The single folds of a soft-bound build, checked under SpecBounds *)

\* the knots the build has completed
KnotsBuilt == 0..(Len(optimizer.s_bounds_) - 1)

\* the boundaries that are folded into knot i (GetUnblockSRange succeeds)
FoldedAt(i) ==
    { j \in DOMAIN in.g.st_boundaries :
        GetUnblockSRange(in.g.st_boundaries[j], i * delta_t_).ok }

\* the four bounds of knot i before its j-th boundary is looked at
BeforeFold(i, j) ==
    FoldAllSoft(KnotStart(in.g.total_length), SubSeq(in.g.st_boundaries, 1, j - 1),
                i * delta_t_, EvaluateByTime(in.dp, i * delta_t_).v)

\* the four bounds of knot i after its j-th boundary
AfterFold(i, j) ==
    FoldAllSoft(KnotStart(in.g.total_length), SubSeq(in.g.st_boundaries, 1, j),
                i * delta_t_, EvaluateByTime(in.dp, i * delta_t_).v)

UpperTypes == {"STOP", "YIELD", "FOLLOW"}

\* an upper bound after the fold: lowered or kept, or put 0.1 above the lower
UpperFolded(lo_before, hi_before, lo, hi) ==
    /\ lo = lo_before
    /\ hi > lo
    /\ hi <= hi_before \/ hi = lo + k_s_bound_error

\* a lower bound after the fold: raised or kept, or put 0.1 below the upper
LowerFolded(lo_before, hi_before, lo, hi) ==
    /\ hi = hi_before
    /\ hi > lo
    /\ lo >= lo_before \/ lo = hi - k_s_bound_error

\* C20: in soft-bound mode, right after a STOP, YIELD, FOLLOW or OVERTAKE
\* boundary has been folded into a knot the hard and the soft pair both have
\* upper > lower; a collapsed pair has the bound the type updates exactly
\* 0.1 from the other bound, which is left as it was.
C20_EveryFoldLeavesOpenPairs ==
    (SetUpReturned /\ in.g.use_soft_bound) =>
        \A i \in KnotsBuilt : \A j \in FoldedAt(i) :
            /\ in.g.st_boundaries[j].type \in UpperTypes =>
                   /\ UpperFolded(BeforeFold(i, j).s_lower_bound,
                                  BeforeFold(i, j).s_upper_bound,
                                  AfterFold(i, j).s_lower_bound,
                                  AfterFold(i, j).s_upper_bound)
                   /\ UpperFolded(BeforeFold(i, j).s_soft_lower_bound,
                                  BeforeFold(i, j).s_soft_upper_bound,
                                  AfterFold(i, j).s_soft_lower_bound,
                                  AfterFold(i, j).s_soft_upper_bound)
            /\ in.g.st_boundaries[j].type = "OVERTAKE" =>
                   /\ LowerFolded(BeforeFold(i, j).s_lower_bound,
                                  BeforeFold(i, j).s_upper_bound,
                                  AfterFold(i, j).s_lower_bound,
                                  AfterFold(i, j).s_upper_bound)
                   /\ LowerFolded(BeforeFold(i, j).s_soft_lower_bound,
                                  BeforeFold(i, j).s_soft_upper_bound,
                                  AfterFold(i, j).s_soft_lower_bound,
                                  AfterFold(i, j).s_soft_upper_bound)

\* C20's case: the second boundary of a knot is a STOP boundary that
\* collapses the hard pair onto a lower bound an OVERTAKE boundary had
\* raised, and the repair puts the upper bound 0.1 above it
C20_Witness ==
    /\ SoftBuildSucceeded
    /\ Len(in.g.st_boundaries) = 2
    /\ in.g.st_boundaries[1].type = "OVERTAKE"
    /\ in.g.st_boundaries[2].type = "STOP"
    /\ FoldedAt(1) = {1, 2}
    /\ BeforeFold(1, 2).s_lower_bound > 0
    /\ GetUnblockSRange(in.g.st_boundaries[2], delta_t_).s_upper
           <= BeforeFold(1, 2).s_lower_bound
    /\ AfterFold(1, 2).s_upper_bound
           = BeforeFold(1, 2).s_lower_bound + k_s_bound_error

----------------------------------------------------------------------------
(* The emergency-brake adjustment, checked under SpecBounds *)

\* the four bounds of knot i after its last boundary, before the adjustment
Folded(i) == AfterFold(i, Len(in.g.st_boundaries))

\* the emergency-brake curve is looked up at knot i and has a point there
HasEbk(i) == in.g.st_boundaries # <<>> /\ EbkAt(i).ok

\* C21: in soft-bound mode, at every knot with ST boundaries where the
\* emergency-brake lookup succeeds the appended hard upper bound is at least
\* ebk.s + 0.2; the adjustment only raises the hard upper bound and leaves
\* the hard lower bound and the soft pair as the folds left them.
C21_EbkOnlyRaisesTheHardUpperBound ==
    (SetUpReturned /\ in.g.use_soft_bound) =>
        \A i \in KnotsBuilt :
            /\ HasEbk(i) => HardBand(i)[2] >= EbkAt(i).s + 200000
            /\ HardBand(i)[2] >= Folded(i).s_upper_bound
            /\ HardBand(i)[2] > Folded(i).s_upper_bound =>
                   HasEbk(i) /\ HardBand(i)[2] = EbkAt(i).s + 200000
            /\ HardBand(i)[1] = Folded(i).s_lower_bound
            /\ SoftBand(i) = <<Folded(i).s_soft_lower_bound,
                               Folded(i).s_soft_upper_bound>>

\* C21's case: the folds left the hard upper bound of the second knot below
\* ebk.s + 0.2 and the appended bound is ebk.s + 0.2
C21_Witness ==
    /\ SoftBuildSucceeded
    /\ HasEbk(1)
    /\ Folded(1).s_upper_bound < EbkAt(1).s + 200000
    /\ HardBand(1)[2] = EbkAt(1).s + 200000

----------------------------------------------------------------------------
(* The single-tier build, checked under SpecBounds *)

SetMin(S) == CHOOSE x \in S : \A y \in S : x <= y
SetMax(S) == CHOOSE x \in S : \A y \in S : x >= y

\* the upper values that bound knot i from above: total_length, u of the
\* STOP and YIELD boundaries, u - 8.0 of the FOLLOW boundaries
Ceilings(i) ==
    {in.g.total_length}
    \cup { in.g.st_boundaries[j].s_upper :
             j \in { k \in FoldedAt(i) :
                       in.g.st_boundaries[k].type \in {"STOP", "YIELD"} } }
    \cup { in.g.st_boundaries[j].s_upper - 8 * Meter :
             j \in { k \in FoldedAt(i) : in.g.st_boundaries[k].type = "FOLLOW" } }

\* the lower values that bound knot i from below: 0 and l of the OVERTAKE
\* boundaries
Floors(i) ==
    {0} \cup { in.g.st_boundaries[j].s_lower :
                 j \in { k \in FoldedAt(i) :
                           in.g.st_boundaries[k].type = "OVERTAKE" } }

\* the knots at which the lower bound lies above the upper bound
CrossedKnots ==
    { i \in 0..(optimizer.num_of_knots_ - 1) :
        SetMax(Floors(i)) > SetMin(Ceilings(i)) }

\* C22: with the soft-bound flag off s_soft_bounds_ is not written, the
\* upper bound of a knot is the minimum of total_length, u over STOP and
\* YIELD and u - 8.0 over FOLLOW, the lower bound is the maximum of 0 and l
\* over OVERTAKE, with no repair and no emergency-brake adjustment, and the
\* build fails with the bounds error exactly when a knot has lower > upper.
C22_SingleTierBounds ==
    (SetUpReturned /\ ~in.g.use_soft_bound) =>
        /\ optimizer.s_soft_bounds_ = InitOptimizer.s_soft_bounds_
        /\ \A i \in KnotsBuilt :
               HardBand(i) = <<SetMax(Floors(i)), SetMin(Ceilings(i))>>
        /\ CrossedKnots = {} =>
               /\ pc = "qp"
               /\ Len(optimizer.s_bounds_) = optimizer.num_of_knots_
        /\ CrossedKnots # {} =>
               /\ pc = "done"
               /\ status = Failed(MsgBounds)
               /\ Len(optimizer.s_bounds_) = Least(CrossedKnots)

\* C22's case: a STOP wall at the ego position and an emergency-brake curve,
\* and the pair of the first knot is (0, 0), neither repaired nor raised
C22_Witness ==
    /\ pc = "qp"
    /\ ~in.g.use_soft_bound
    /\ in.g.total_length > 0
    /\ EbkAt(0).ok
    /\ \E j \in FoldedAt(0) :
           /\ in.g.st_boundaries[j].type = "STOP"
           /\ in.g.st_boundaries[j].s_upper = 0
    /\ HardBand(0) = <<0, 0>>

----------------------------------------------------------------------------
(* The validity check of a soft-bound build, checked under SpecBounds *)

\* C23: in soft-bound mode with total_length >= 0 the check lower > upper at
\* the end of a knot never fires: every appended hard pair has lower <= upper
\* and the only failure of the build is the failed DP profile lookup.
C23_SoftBuildNeverCrosses ==
    (SetUpReturned /\ in.g.use_soft_bound /\ in.g.total_length >= 0) =>
        /\ status # Failed(MsgBounds)
        /\ pc = "done" => status = Failed(MsgRough)
        /\ \A i \in KnotsBuilt : HardBand(i)[1] <= HardBand(i)[2]

\* C23's case: a soft-bound build has succeeded on boundaries whose
\* single-tier bounds cross at some knot
C23_Witness ==
    /\ SoftBuildSucceeded
    /\ CrossedKnots # {}
    /\ \E j \in FoldedAt(1) : in.g.st_boundaries[j].type = "OVERTAKE"
    /\ \E j \in FoldedAt(1) : in.g.st_boundaries[j].type = "STOP"

----------------------------------------------------------------------------
(* The order of the ST boundaries, checked under SpecBounds *)

\* the orders in which n boundaries can be iterated
IterationOrders(n) ==
    { f \in [1..n -> 1..n] : \A a, b \in 1..n : f[a] = f[b] => a = b }

\* the four bounds of knot i when the boundaries are iterated in order f
KnotInOrder(i, f) ==
    EbkAdjust(
        FoldAllSoft(KnotStart(in.g.total_length),
                    [k \in 1..Len(in.g.st_boundaries) |-> in.g.st_boundaries[f[k]]],
                    i * delta_t_, EvaluateByTime(in.dp, i * delta_t_).v),
        HasEbk(i), EbkAt(i).s)

\* C24: in soft-bound mode the hard and the soft pair of a knot are the same
\* for every order in which the same ST boundaries are iterated.
C24_BoundsIndependentOfBoundaryOrder ==
    (SetUpReturned /\ in.g.use_soft_bound) =>
        \A i \in KnotsBuilt : \A f \in IterationOrders(Len(in.g.st_boundaries)) :
            /\ HardBand(i) = <<KnotInOrder(i, f).s_lower_bound,
                               KnotInOrder(i, f).s_upper_bound>>
            /\ SoftBand(i) = <<KnotInOrder(i, f).s_soft_lower_bound,
                               KnotInOrder(i, f).s_soft_upper_bound>>

----------------------------------------------------------------------------
(* The static mutex over time, checked under SpecNLPFair *)

\* a thread holds a mutex only while it is inside OptimizeByNLP
HeldOnlyInside ==
    \A m \in DOMAIN mutex_tnlp :
        mutex_tnlp[m] # 0 => nlp_pc[mutex_tnlp[m]] \in NlpInside

----------------------------------------------------------------------------
(* The warm start inside Process, checked under Spec *)

\* between the QP and the call of OptimizeByNLP
BetweenQPAndNLP == pc \in {"check", "smooth_curvature", "smooth_speed_limit", "nlp"}

\* C26: within Process OptimizeByNLP never returns the warm-start error: it
\* is called only after the QP filled distance, velocity and acceleration
\* with num_of_knots_ >= 1 entries each, nothing between the QP and the call
\* changes them, and so no solver outcome, with the warm start on or off,
\* takes the warm-start branch.
C26_WarmStartErrorUnreachableInProcess ==
    /\ in.nlp_status # Failed(MsgWarmStart)
    /\ BetweenQPAndNLP =>
           /\ in.qp.ok
           /\ arrays = in.qp.sol
           /\ optimizer.num_of_knots_ >= 1
           /\ Len(arrays.distance) = optimizer.num_of_knots_
           /\ Len(arrays.velocity) = optimizer.num_of_knots_
           /\ Len(arrays.acceleration) = optimizer.num_of_knots_
    /\ pc = "nlp" =>
           \A o \in NLPOutcomes(optimizer.num_of_knots_) :
               OptimizeByNLP(arrays, o).status # Failed(MsgWarmStart)

\* C26's case: the second call on the object is about to call OptimizeByNLP
\* with the arrays of a one-knot QP
C26_Witness ==
    /\ calls = 2
    /\ pc = "nlp"
    /\ optimizer.num_of_knots_ = 1
    /\ Len(arrays.velocity) = 1

====
